---- MODULE Spec2Model ----
(***************************************************************************)
(* Model of the venture-review repository:                                 *)
(*   - training/eval_harness.py : post_doc, run_single, pretty_print,      *)
(*     save_jsonl and main, as a sequential state machine (Spec, FairSpec) *)
(*   - server/app.py and server/postprocess.py : the two coerce_json       *)
(*     functions, as operators applied to bounded inputs (CoerceSpec)      *)
(***************************************************************************)
EXTENDS Integers, Sequences, FiniteSets, TLC

(***************************************************************************)
(* Bounds of the model                                                     *)
(***************************************************************************)
MaxFiles == 2
MaxRetries == 2

(***************************************************************************)
(* Python / JSON values.  Every value is a record tagged by ty; the field  *)
(* holding the payload has a different name for every type.                *)
(***************************************************************************)
PyNone == [ty |-> "none"]
PyBool(b) == [ty |-> "bool", b |-> b]
PyInt(n) == [ty |-> "int", n |-> n]
PyStr(s) == [ty |-> "str", s |-> s]
PyList(e) == [ty |-> "list", e |-> e]
PyDict(d) == [ty |-> "dict", d |-> d]
EmptyDict == [k \in {} |-> PyNone]

\* dict.get(key, default)
DictGet(d, key, default) == IF key \in DOMAIN d THEN d[key] ELSE default

\* bool(v), Python truthiness
Truthy(v) ==
    CASE v.ty = "none" -> FALSE
      [] v.ty = "bool" -> v.b
      [] v.ty = "int" -> v.n # 0
      [] v.ty = "str" -> v.s # ""
      [] v.ty = "list" -> Len(v.e) > 0
      [] v.ty = "dict" -> DOMAIN v.d # {}

\* iter(v) succeeds
Iterable(v) == v.ty \in {"str", "list", "dict"}

\* `key in text` for the strings a response body of the model can be
Substring(key, text) ==
    \/ key = text
    \/ text = "flags, summary" /\ key \in {"flags", "summary"}

(***************************************************************************)
(* Inputs of the harness                                                   *)
(***************************************************************************)
Docs == <<"a.docx", "b.docx", "c.docx", "d.docx">>
Latencies == {12}

\* sys.argv[1:] or the sorted glob: 0..MaxFiles paths
FileLists == {SubSeq(Docs, 1, n) : n \in 0..MaxFiles}

\* int(os.environ.get("EVAL_RETRIES", "2")): any integer, here -1..MaxRetries
RetryChoices == (-1)..MaxRetries

\* decoded JSON bodies the endpoint can answer with
Bodies == {
    PyDict([flags |-> PyList(<<PyStr("2x liquidation preference")>>),
            summary |-> PyStr("one flag"),
            meta |-> PyDict([model_id |-> PyStr("auto")])]),
    PyDict([flags |-> PyList(<<PyDict([issue |-> PyStr("ratchet"),
                                       severity |-> PyStr("high")])>>),
            summary |-> PyStr("labeled")]),
    PyDict([flags |-> PyInt(5), summary |-> PyStr("flags is a number")]),
    PyDict([result |-> PyStr("raw model text")]),
    PyDict([flags |-> PyList(<<PyStr("veto")>>)]),
    PyList(<<PyStr("flags"), PyStr("summary")>>),
    PyStr("raw model text"),
    PyStr("flags, summary"),
    PyInt(5),
    PyNone
}

\* what one pass through the try block of post_doc can meet
Outcomes ==
    {[k |-> "file_unreadable"], [k |-> "transport_error"],
     [k |-> "bad_status"], [k |-> "unparsable_body"]}
    \cup {[k |-> "body", data |-> b] : b \in Bodies}

(***************************************************************************)
(* eval_harness.py: post_doc                                               *)
(***************************************************************************)
Raise(e) == [raised |-> TRUE, err |-> e, sent |-> TRUE, ret |-> PyNone]
Return(v) == [raised |-> FALSE, err |-> "", sent |-> TRUE, ret |-> v]

\* `key in data`: membership, raising TypeError on a value that is no container
Contains(key, data) ==
    CASE data.ty = "dict" -> [raised |-> FALSE, val |-> key \in DOMAIN data.d]
      [] data.ty = "list" ->
            [raised |-> FALSE,
             val |-> \E j \in DOMAIN data.e :
                        data.e[j].ty = "str" /\ data.e[j].s = key]
      [] data.ty = "str" -> [raised |-> FALSE, val |-> Substring(key, data.s)]
      [] OTHER -> [raised |-> TRUE, val |-> FALSE]

\* the structured return value
structured_result(data, lat_ms) ==
    PyDict([ok |-> PyBool(TRUE),
            latency_ms |-> PyInt(lat_ms),
            flags |-> DictGet(data.d, "flags", PyList(<<>>)),
            summary |-> DictGet(data.d, "summary", PyStr("")),
            meta |-> DictGet(data.d, "meta", PyDict(EmptyDict)),
            raw |-> PyNone])

\* the raw return value
raw_result(data, lat_ms) ==
    PyDict([ok |-> PyBool(TRUE),
            latency_ms |-> PyInt(lat_ms),
            flags |-> PyList(<<>>),
            summary |-> PyStr(""),
            meta |-> PyDict(EmptyDict),
            raw |-> data])

\* mutant: the failure value built with the shape of a success
failure_result_full_shape(e) ==
    PyDict([ok |-> PyBool(FALSE), error |-> PyStr(e), flags |-> PyList(<<>>),
            summary |-> PyStr(""), meta |-> PyDict(EmptyDict), raw |-> PyNone])

\* the return value after the last failed attempt
failure_result(e) == PyDict([ok |-> PyBool(FALSE), error |-> PyStr(e)])

\* the classification of a decoded body
classify(data, lat_ms) ==
    LET hasFlags == Contains("flags", data)
        hasSummary == Contains("summary", data)
    IN  IF hasFlags.raised THEN Raise("TypeError('argument is not iterable')")
        ELSE IF ~hasFlags.val THEN Return(raw_result(data, lat_ms))
        ELSE IF hasSummary.raised
             THEN Raise("TypeError('argument is not iterable')")
        ELSE IF ~hasSummary.val THEN Return(raw_result(data, lat_ms))
        ELSE IF data.ty # "dict"
             THEN Raise("AttributeError('object has no attribute get')")
        ELSE Return(structured_result(data, lat_ms))

\* one pass through the try block, on the outcome `out` of its I/O
post_doc_try(out, lat_ms) ==
    CASE out.k = "file_unreadable" ->
            [Raise("FileNotFoundError(2, 'No such file or directory')")
                EXCEPT !.sent = FALSE]
      [] out.k = "transport_error" -> Raise("ConnectionError('refused')")
      [] out.k = "bad_status" -> Raise("HTTPError('500 Server Error')")
      [] out.k = "unparsable_body" -> Raise("JSONDecodeError('Expecting value')")
      [] out.k = "body" -> classify(out.data, lat_ms)

\* attempt in range(RETRIES + 1)
InRange(a, r) == 0 <= a /\ a < r + 1

\* mutant: the comparison off by one
RetryAgain_off_by_one(a, r) == a <= r

\* the except branch: sleep and go on, or give up
RetryAgain(a, r) == a < r

(***************************************************************************)
(* eval_harness.py: run_single, pretty_print, save_jsonl                   *)
(***************************************************************************)
run_single(path, r, ts) ==
    PyDict([file |-> PyStr(path),
            ok |-> DictGet(r.d, "ok", PyBool(FALSE)),
            latency_ms |-> DictGet(r.d, "latency_ms", PyNone),
            flags |-> DictGet(r.d, "flags", PyNone),
            summary |-> DictGet(r.d, "summary", PyNone),
            meta |-> DictGet(r.d, "meta", PyNone),
            raw |-> DictGet(r.d, "raw", PyNone),
            error |-> DictGet(r.d, "error", PyNone),
            ts |-> PyInt(ts)])

\* pretty_print(record) raises: enumerate() of a truthy value that is not iterable
pretty_print_raises(record) ==
    /\ Truthy(record.d.ok)
    /\ Truthy(record.d.flags)
    /\ ~Iterable(record.d.flags)

\* json.dumps(v): the JSON text of a value
RECURSIVE json_dumps(_)
json_dumps(v) ==
    CASE v.ty = "none" -> [j |-> "null"]
      [] v.ty = "bool" -> [j |-> IF v.b THEN "true" ELSE "false"]
      [] v.ty = "int" -> [j |-> "number", n |-> v.n]
      [] v.ty = "str" -> [j |-> "string", s |-> v.s]
      [] v.ty = "list" ->
            [j |-> "array", e |-> [x \in DOMAIN v.e |-> json_dumps(v.e[x])]]
      [] v.ty = "dict" ->
            [j |-> "object", m |-> [x \in DOMAIN v.d |-> json_dumps(v.d[x])]]

\* the lines save_jsonl writes for `recs`
jsonl_lines(recs) == [x \in DOMAIN recs |-> json_dumps(recs[x])]

\* what the log file can hold before the run: lines of earlier runs
OldLine ==
    json_dumps(run_single("old.docx", failure_result("Timeout()"), 1600000000))
PriorLogs == {<<>>, <<OldLine>>}

Times == {1700000000}

(***************************************************************************)
(* Text.  A Python str is a sequence of one-character strings.             *)
(***************************************************************************)
UpperCase == <<"A", "B", "C", "D", "E", "F", "G", "H", "I", "J", "K", "L", "M", "N", "O", "P", "Q", "R", "S", "T", "U", "V", "W", "X", "Y", "Z">>
LowerCase == <<"a", "b", "c", "d", "e", "f", "g", "h", "i", "j", "k", "l", "m", "n", "o", "p", "q", "r", "s", "t", "u", "v", "w", "x", "y", "z">>

\* c.lower()
LowerChar(c) ==
    IF \E x \in DOMAIN UpperCase : UpperCase[x] = c
    THEN LowerCase[CHOOSE x \in DOMAIN UpperCase : UpperCase[x] = c]
    ELSE c

\* s.lower()
Lower(s) == [x \in DOMAIN s |-> LowerChar(s[x])]

\* `k in s` for strings
InStr(k, s) ==
    \E x \in 1..(Len(s) - Len(k) + 1) : \A y \in 1..Len(k) : s[x + y - 1] = k[y]

\* s[:n]
Slice(s, n) == SubSeq(s, 1, IF Len(s) < n THEN Len(s) ELSE n)

WhiteSpace == {" ", "\n"}

\* s.strip()
RECURSIVE FirstNonSpace(_, _)
FirstNonSpace(s, x) ==
    IF x > Len(s) \/ s[x] \notin WhiteSpace THEN x ELSE FirstNonSpace(s, x + 1)
RECURSIVE LastNonSpace(_, _)
LastNonSpace(s, x) ==
    IF x < 1 \/ s[x] \notin WhiteSpace THEN x ELSE LastNonSpace(s, x - 1)
Strip(s) == SubSeq(s, FirstNonSpace(s, 1), LastNonSpace(s, Len(s)))

\* s.splitlines(), for the line break "\n"
RECURSIVE SplitLines(_)
SplitLines(s) ==
    LET breaks == {x \in DOMAIN s : s[x] = "\n"}
    IN  IF s = <<>> THEN <<>>
        ELSE IF breaks = {} THEN <<s>>
        ELSE LET b == CHOOSE x \in breaks : \A y \in breaks : x <= y
             IN  <<SubSeq(s, 1, b - 1)>> \o SplitLines(SubSeq(s, b + 1, Len(s)))

\* " ".join(lines)
RECURSIVE JoinSpace(_)
JoinSpace(lines) ==
    IF lines = <<>> THEN <<>>
    ELSE IF Len(lines) = 1 THEN lines[1]
    ELSE lines[1] \o <<" ">> \o JoinSpace(Tail(lines))

\* str(n) for an integer n >= 0
Digit == <<"0", "1", "2", "3", "4", "5", "6", "7", "8", "9">>
RECURSIVE Digits(_)
Digits(n) == IF n < 10 THEN <<Digit[n + 1]>> ELSE Digits(n \div 10) \o <<Digit[(n % 10) + 1]>>

(***************************************************************************)
(* The keyword list of the heuristic tier                                  *)
(***************************************************************************)
keywords == <<
    <<"l", "i", "q", "u", "i", "d", "a", "t", "i", "o", "n">>,
    <<"p", "r", "e", "f", "e", "r", "e", "n", "c", "e">>,
    <<"p", "a", "r", "t", "i", "c", "i", "p", "a", "t", "i", "n", "g">>,
    <<"c", "a", "p">>,
    <<"a", "n", "t", "i", "-", "d", "i", "l", "u", "t", "i", "o", "n">>,
    <<"r", "a", "t", "c", "h", "e", "t">>,
    <<"b", "o", "a", "r", "d">>,
    <<"v", "e", "t", "o">>,
    <<"d", "r", "a", "g">>,
    <<"t", "a", "g">>,
    <<"r", "o", "f", "r">>,
    <<"e", "s", "o", "p">>,
    <<"p", "o", "o", "l">>
>>

\* any(k in ln.lower() for k in keywords)
HasKeyword(ln) == \E x \in DOMAIN keywords : InStr(keywords[x], Lower(ln))

\* [ln.strip() for ln in lines if ln.strip()]
RECURSIVE StrippedLines(_)
StrippedLines(lines) ==
    IF lines = <<>> THEN <<>>
    ELSE (IF Strip(lines[1]) # <<>> THEN <<Strip(lines[1])>> ELSE <<>>)
         \o StrippedLines(Tail(lines))

\* [ln for ln in lines if any(k in ln.lower() for k in keywords)]
RECURSIVE KeywordLines(_)
KeywordLines(lines) ==
    IF lines = <<>> THEN <<>>
    ELSE (IF HasKeyword(lines[1]) THEN <<lines[1]>> ELSE <<>>)
         \o KeywordLines(Tail(lines))

(***************************************************************************)
(* The raw model output, token by token.  json.loads and re.search read     *)
(* the tokens; the heuristic tier reads the text they spell.                *)
(***************************************************************************)
Punct(c) == [k |-> "punct", c |-> c]
Ws(c) == [k |-> "ws", c |-> c]
Lit(w) == [k |-> "lit", w |-> w]
Num(n) == [k |-> "num", n |-> n]
Const(w) == [k |-> "const", w |-> w]
Word(w) == [k |-> "word", w |-> w]

W_null == <<"n", "u", "l", "l">>
W_true == <<"t", "r", "u", "e">>
W_false == <<"f", "a", "l", "s", "e">>
W_flags == <<"f", "l", "a", "g", "s">>
W_summary == <<"s", "u", "m", "m", "a", "r", "y">>

\* the characters of one token
TokText(t) ==
    CASE t.k \in {"punct", "ws"} -> <<t.c>>
      [] t.k = "lit" -> <<"\"">> \o t.w \o <<"\"">>
      [] t.k = "num" -> Digits(t.n)
      [] t.k \in {"const", "word"} -> t.w

\* model_out as a str
RECURSIVE Text(_)
Text(toks) == IF toks = <<>> THEN <<>> ELSE TokText(toks[1]) \o Text(Tail(toks))

(***************************************************************************)
(* json.loads.  A JSON object is decoded to a dict that keeps the order of *)
(* its keys: [ty |-> "dict", items |-> <<[key, val], ...>>].               *)
(***************************************************************************)
PyObject(items) == [ty |-> "dict", items |-> items]

\* d[key] = val on the items of a dict
ObjPut(items, key, val) ==
    IF \E x \in DOMAIN items : items[x].key = key
    THEN [x \in DOMAIN items |->
            IF items[x].key = key THEN [key |-> key, val |-> val] ELSE items[x]]
    ELSE Append(items, [key |-> key, val |-> val])

\* d.get(key, default) on the items of a dict
ObjGet(items, key, default) ==
    IF \E x \in DOMAIN items : items[x].key = key
    THEN items[CHOOSE x \in DOMAIN items : items[x].key = key].val
    ELSE default

ParseFail == [ok |-> FALSE, v |-> PyNone, next |-> 0]
ParseOk(v, next) == [ok |-> TRUE, v |-> v, next |-> next]

IsPunct(toks, x, c) == x <= Len(toks) /\ toks[x].k = "punct" /\ toks[x].c = c

RECURSIVE SkipWs(_, _)
SkipWs(toks, x) ==
    IF x <= Len(toks) /\ toks[x].k = "ws" THEN SkipWs(toks, x + 1) ELSE x

ConstValue(w) ==
    IF w = W_null THEN PyNone ELSE PyBool(w = W_true)

RECURSIVE ParseValue(_, _)
RECURSIVE ParseElems(_, _, _)
RECURSIVE ParseMembers(_, _, _)

\* a value starting at token x
ParseValue(toks, x) ==
    IF x > Len(toks) THEN ParseFail
    ELSE LET t == toks[x]
             y == SkipWs(toks, x + 1)
         IN  CASE t.k = "lit" -> ParseOk(PyStr(t.w), x + 1)
               [] t.k = "num" -> ParseOk(PyInt(t.n), x + 1)
               [] t.k = "const" -> ParseOk(ConstValue(t.w), x + 1)
               [] IsPunct(toks, x, "[") ->
                     IF IsPunct(toks, y, "]") THEN ParseOk(PyList(<<>>), y + 1)
                     ELSE ParseElems(toks, y, <<>>)
               [] IsPunct(toks, x, "{") ->
                     IF IsPunct(toks, y, "}") THEN ParseOk(PyObject(<<>>), y + 1)
                     ELSE ParseMembers(toks, y, <<>>)
               [] OTHER -> ParseFail

\* the elements of an array from token x on, `acc` already read
ParseElems(toks, x, acc) ==
    LET v == ParseValue(toks, x)
        y == SkipWs(toks, v.next)
    IN  IF ~v.ok THEN ParseFail
        ELSE IF IsPunct(toks, y, ",")
             THEN ParseElems(toks, SkipWs(toks, y + 1), Append(acc, v.v))
        ELSE IF IsPunct(toks, y, "]") THEN ParseOk(PyList(Append(acc, v.v)), y + 1)
        ELSE ParseFail

\* the members of an object from token x on, `items` already read
ParseMembers(toks, x, items) ==
    LET colon == SkipWs(toks, x + 1)
        v == ParseValue(toks, SkipWs(toks, colon + 1))
        y == SkipWs(toks, v.next)
    IN  IF x > Len(toks) \/ toks[x].k # "lit" THEN ParseFail
        ELSE IF ~IsPunct(toks, colon, ":") THEN ParseFail
        ELSE IF ~v.ok THEN ParseFail
        ELSE IF IsPunct(toks, y, ",")
             THEN ParseMembers(toks, SkipWs(toks, y + 1), ObjPut(items, toks[x].w, v.v))
        ELSE IF IsPunct(toks, y, "}")
             THEN ParseOk(PyObject(ObjPut(items, toks[x].w, v.v)), y + 1)
        ELSE ParseFail

\* json.loads(text): one value, nothing but white space around it
json_loads(toks) ==
    LET v == ParseValue(toks, SkipWs(toks, 1))
    IN  IF v.ok /\ SkipWs(toks, v.next) > Len(toks) THEN v ELSE ParseFail

\* mutant: the non-greedy pattern, from the first "{" to the first "}" after it
re_search_non_greedy(toks) ==
    LET opens == {x \in DOMAIN toks : IsPunct(toks, x, "{")}
        first == CHOOSE x \in opens : \A y \in opens : x <= y
        closes == {x \in DOMAIN toks : IsPunct(toks, x, "}") /\ x > first}
        final == CHOOSE x \in closes : \A y \in closes : x <= y
    IN  IF opens # {} /\ closes # {}
        THEN [found |-> TRUE, group |-> SubSeq(toks, first, final)]
        ELSE [found |-> FALSE, group |-> <<>>]

\* re.search(r"\{[\s\S]*\}", text): from the first "{" to the last "}"
re_search(toks) ==
    LET opens == {x \in DOMAIN toks : IsPunct(toks, x, "{")}
        closes == {x \in DOMAIN toks : IsPunct(toks, x, "}")}
        first == CHOOSE x \in opens : \A y \in opens : x <= y
        final == CHOOSE x \in closes : \A y \in closes : y <= x
    IN  IF opens # {} /\ closes # {} /\ first < final
        THEN [found |-> TRUE, group |-> SubSeq(toks, first, final)]
        ELSE [found |-> FALSE, group |-> <<>>]

(***************************************************************************)
(* str(), iteration                                                        *)
(***************************************************************************)
RECURSIVE py_repr(_)
RECURSIVE ReprList(_)
RECURSIVE ReprItems(_)

\* repr(v)
py_repr(v) ==
    CASE v.ty = "none" -> <<"N", "o", "n", "e">>
      [] v.ty = "bool" -> IF v.b THEN <<"T", "r", "u", "e">> ELSE <<"F", "a", "l", "s", "e">>
      [] v.ty = "int" -> Digits(v.n)
      [] v.ty = "str" -> <<"'">> \o v.s \o <<"'">>
      [] v.ty = "list" -> <<"[">> \o ReprList(v.e) \o <<"]">>
      [] v.ty = "dict" -> <<"{">> \o ReprItems(v.items) \o <<"}">>
ReprList(e) ==
    IF e = <<>> THEN <<>>
    ELSE IF Len(e) = 1 THEN py_repr(e[1])
    ELSE py_repr(e[1]) \o <<",", " ">> \o ReprList(Tail(e))
ReprItems(items) ==
    LET one == py_repr(PyStr(items[1].key)) \o <<":", " ">> \o py_repr(items[1].val)
    IN  IF items = <<>> THEN <<>>
        ELSE IF Len(items) = 1 THEN one
        ELSE one \o <<",", " ">> \o ReprItems(Tail(items))

\* str(v)
py_str(v) == IF v.ty = "str" THEN v.s ELSE py_repr(v)

\* list(v) for an iterable v
Iterate(v) ==
    CASE v.ty = "list" -> v.e
      [] v.ty = "str" -> [x \in DOMAIN v.s |-> PyStr(<<v.s[x]>>)]
      [] v.ty = "dict" -> [x \in DOMAIN v.items |-> PyStr(v.items[x].key)]

\* list(map(str, v))
MapStr(v) == LET e == Iterate(v) IN [x \in DOMAIN e |-> py_str(e[x])]

(***************************************************************************)
(* server/app.py: coerce_json                                              *)
(***************************************************************************)
FlagCap == 20
SummaryCap == 4000
HeuristicFlagCap == 12
SummaryLines == 5

TierRaised(exc) == [raised |-> TRUE, exc |-> exc, flags |-> <<>>, summary |-> <<>>]
TierOk(flags, summary) ==
    [raised |-> FALSE, exc |-> "", flags |-> flags, summary |-> summary]

\* mutant: `except json.JSONDecodeError`
Caught_decode_errors_only(exc) == exc = "JSONDecodeError"

\* `except Exception` catches it
Caught(exc) == exc \in {"JSONDecodeError", "AttributeError", "TypeError"}

\* mutant: the slices [:20] and [:4000] left out
structured_app_uncut(parsed) ==
    IF ~parsed.ok THEN TierRaised("JSONDecodeError")
    ELSE IF parsed.v.ty # "dict" THEN TierRaised("AttributeError")
    ELSE LET fl == ObjGet(parsed.v.items, W_flags, PyList(<<>>))
             sm == ObjGet(parsed.v.items, W_summary, PyStr(<<>>))
         IN  IF ~Iterable(fl) THEN TierRaised("TypeError")
             ELSE TierOk(MapStr(fl), py_str(sm))

\* the body of a try block of app.coerce_json, on the outcome of json.loads
structured_app(parsed) ==
    IF ~parsed.ok THEN TierRaised("JSONDecodeError")
    ELSE IF parsed.v.ty # "dict" THEN TierRaised("AttributeError")
    ELSE LET fl == ObjGet(parsed.v.items, W_flags, PyList(<<>>))
             sm == ObjGet(parsed.v.items, W_summary, PyStr(<<>>))
         IN  IF ~Iterable(fl) THEN TierRaised("TypeError")
             ELSE TierOk(Slice(MapStr(fl), FlagCap), Slice(py_str(sm), SummaryCap))

\* the heuristic fallback of app.coerce_json
heuristic_app(text) ==
    LET lines == StrippedLines(SplitLines(text))
    IN  TierOk(Slice(KeywordLines(lines), HeuristicFlagCap),
               Slice(JoinSpace(Slice(lines, SummaryLines)), SummaryCap))

\* what a call returns or raises, and the tier that returned
Returns(tier, t) ==
    [raised |-> FALSE, exc |-> "", tier |-> tier, flags |-> t.flags,
     summary |-> t.summary]
Raises(exc) ==
    [raised |-> TRUE, exc |-> exc, tier |-> 0, flags |-> <<>>, summary |-> <<>>]

\* app.coerce_json(model_out), model_out given as tokens
coerce_json_app(toks) ==
    LET t1 == structured_app(json_loads(toks))
        m == re_search(toks)
        t2 == structured_app(json_loads(m.group))
        t3 == heuristic_app(Text(toks))
    IN  IF ~t1.raised THEN Returns(1, t1)
        ELSE IF ~Caught(t1.exc) THEN Raises(t1.exc)
        ELSE IF m.found /\ ~t2.raised THEN Returns(2, t2)
        ELSE IF m.found /\ ~Caught(t2.exc) THEN Raises(t2.exc)
        ELSE Returns(3, t3)

(***************************************************************************)
(* server/postprocess.py: coerce_json                                      *)
(***************************************************************************)
PostprocessSummaryCap == 2000

\* the body of a try block of postprocess.coerce_json
structured_postprocess(parsed) ==
    IF ~parsed.ok THEN TierRaised("JSONDecodeError")
    ELSE IF parsed.v.ty # "dict" THEN TierRaised("AttributeError")
    ELSE LET fl == ObjGet(parsed.v.items, W_flags, PyList(<<>>))
             sm == ObjGet(parsed.v.items, W_summary, PyStr(<<>>))
         IN  IF ~Iterable(fl) THEN TierRaised("TypeError")
             ELSE TierOk(MapStr(fl), py_str(sm))

\* the heuristic fallback of postprocess.coerce_json
heuristic_postprocess(text) ==
    LET lines == StrippedLines(SplitLines(text))
    IN  TierOk(KeywordLines(lines),
               Slice(JoinSpace(Slice(lines, SummaryLines)), PostprocessSummaryCap))

\* postprocess.coerce_json(model_out), model_out given as tokens
coerce_json_postprocess(toks) ==
    LET t1 == structured_postprocess(json_loads(toks))
        m == re_search(toks)
        t2 == structured_postprocess(json_loads(m.group))
        t3 == heuristic_postprocess(Text(toks))
    IN  IF ~t1.raised THEN Returns(1, t1)
        ELSE IF ~Caught(t1.exc) THEN Raises(t1.exc)
        ELSE IF m.found /\ ~t2.raised THEN Returns(2, t2)
        ELSE IF m.found /\ ~Caught(t2.exc) THEN Raises(t2.exc)
        ELSE Returns(3, t3)

(***************************************************************************)
(* Inputs of coerce_json                                                   *)
(***************************************************************************)
MaxToks == 3
MaxFlags == 21
MaxLines == 13
BlobLen == 4001

W_cap == <<"c", "a", "p">>
W_ok == <<"o", "k">>
W_hello == <<"h", "e", "l", "l", "o">>
W_Liquidation == <<"L", "i", "q", "u", "i", "d", "a", "t", "i", "o", "n">>
W_issue == <<"i", "s", "s", "u", "e">>
Blob == [x \in 1..BlobLen |-> "x"]

\* every token sequence of at most MaxToks tokens over this vocabulary
Vocabulary == {
    Punct("{"), Punct("}"), Punct("["), Punct("]"), Punct(","), Punct(":"),
    Lit(W_flags), Num(7), Const(W_null), Ws("\n"), Ws(" "),
    Word(W_Liquidation), Word(W_hello)
}
ShortInputs == UNION {[1..n -> Vocabulary] : n \in 0..MaxToks}

\* the tokens of a JSON array of n string literals
RECURSIVE ArrayItems(_, _)
ArrayItems(n, w) ==
    IF n = 0 THEN <<>>
    ELSE IF n = 1 THEN <<Lit(w)>>
    ELSE <<Lit(w), Punct(","), Ws(" ")>> \o ArrayItems(n - 1, w)
ArrayOf(n, w) == <<Punct("[")>> \o ArrayItems(n, w) \o <<Punct("]")>>

\* the values given to "flags": arrays of 0..MaxFlags strings, an array of
\* mixed elements, and values that are no array
FlagsValues ==
    {ArrayOf(n, W_cap) : n \in 0..MaxFlags}
    \cup {<<Punct("["), Lit(W_ok), Punct(","), Num(70), Punct(","), Const(W_null),
            Punct(","), Const(W_true), Punct(","), Punct("{"), Lit(W_issue),
            Punct(":"), Lit(W_cap), Punct("}"), Punct("]")>>,
          <<Num(5)>>, <<Const(W_null)>>, <<Const(W_false)>>, <<Lit(W_ok)>>,
          <<Punct("{"), Lit(W_issue), Punct(":"), Num(7), Punct("}")>>}

\* the values given to "summary"
SummaryValues ==
    {<<Lit(W_ok)>>, <<Lit(Blob)>>, <<Num(7)>>, <<Const(W_null)>>,
     <<Punct("["), Num(7), Punct("]")>>}

Member(key, value) == <<Lit(key), Punct(":"), Ws(" ")>> \o value

\* JSON objects with a flags key, a summary key, both or neither
Objects ==
    {<<Punct("{")>> \o Member(W_flags, f) \o <<Punct(","), Ws(" ")>>
        \o Member(W_summary, s) \o <<Punct("}")>> :
            f \in FlagsValues, s \in SummaryValues}
    \cup {<<Punct("{")>> \o Member(W_summary, s) \o <<Punct(","), Ws(" ")>>
        \o Member(W_flags, f) \o <<Punct("}")>> :
            f \in {ArrayOf(2, W_cap), <<Num(5)>>}, s \in SummaryValues}
    \cup {<<Punct("{")>> \o Member(W_flags, f) \o <<Punct("}")>> : f \in FlagsValues}
    \cup {<<Punct("{")>> \o Member(W_summary, s) \o <<Punct("}")>> : s \in SummaryValues}
    \cup {<<Punct("{"), Ws(" "), Punct("}")>>}

\* an object alone, in prose, followed by a keyword line, twice, twice in
\* prose, after an array that is no JSON, or in an array
Wrapped(o) ==
    {o,
     <<Ws("\n"), Ws(" ")>> \o o \o <<Ws("\n")>>,
     <<Word(W_hello), Punct(":"), Ws(" ")>> \o o \o <<Ws(" "), Word(W_ok)>>,
     o \o <<Ws("\n"), Ws(" "), Word(W_Liquidation), Ws(" "), Word(W_ok), Ws(" ")>>,
     o \o <<Ws(" "), Word(W_hello), Ws(" ")>> \o o,
     <<Word(W_hello), Ws(" ")>> \o o \o <<Ws("\n")>> \o o
        \o <<Ws(" "), Word(W_Liquidation)>>,
     <<Punct("["), Word(W_hello), Punct("]"), Ws(" ")>> \o o,
     <<Punct("[")>> \o o \o <<Punct("]")>>}
ObjectInputs == UNION {Wrapped(o) : o \in Objects}

\* n lines with a keyword, m without, in this order or the other, after a
\* long line or not
RECURSIVE Lines(_, _)
Lines(n, line) == IF n = 0 THEN <<>> ELSE line \o <<Ws("\n")>> \o Lines(n - 1, line)
KeywordLine == <<Ws(" "), Word(W_Liquidation), Ws(" "), Word(W_ok), Ws(" ")>>
PlainLine == <<Word(W_hello), Ws(" "), Ws(" "), Word(W_ok)>>
LongLine == <<Word(Blob), Ws(" "), Word(W_cap), Ws("\n"), Ws("\n")>>
LineInputs ==
    {head \o Lines(n, KeywordLine) \o Lines(m, PlainLine) :
        head \in {<<>>, LongLine}, n \in 0..MaxLines, m \in {0, 1, 6}}
    \cup {head \o Lines(m, PlainLine) \o Lines(n, KeywordLine) :
        head \in {<<>>, LongLine}, n \in 0..MaxLines, m \in {1, 6}}

Inputs == ShortInputs \cup ObjectInputs \cup LineInputs

(***************************************************************************)
(* State of one run of the harness                                         *)
(***************************************************************************)
VARIABLES
    retries,    \* RETRIES
    files,      \* main: files
    logfile,    \* the lines of the file at OUT_PATH
    prior,      \* the lines of that file when the run started
    pc,         \* where the run is
    idx,        \* main: position of p in files
    attempt,    \* post_doc: attempt
    records,    \* main: records
    res,        \* run_single: res, the value post_doc returned
    submitted,  \* the paths post_doc was called with, in call order
    last,       \* the outcome of the latest attempt of the current post_doc call
    tried,      \* passes through the try block in the current post_doc call
    failed,     \* those of them that raised
    requests,   \* requests.post calls of the current post_doc call
    sleeps,     \* time.sleep calls of the current post_doc call
    model_out,  \* coerce_json: the argument, as tokens
    impl,       \* which coerce_json was called: "app" or "postprocess"
    body        \* what the call returned or raised

hvars == <<retries, files, logfile, prior, pc, idx, attempt, records, res,
           submitted, last, tried, failed, requests, sleeps>>
cvars == <<model_out, impl, body>>
vars == <<hvars, cvars>>

\* no attempt made yet
NoOutcome == [k |-> "none"]

Init ==
    /\ retries \in RetryChoices
    /\ files \in FileLists
    /\ prior \in PriorLogs
    /\ logfile = prior
    /\ pc = "start"
    /\ idx = 1
    /\ attempt = 0
    /\ records = <<>>
    /\ res = PyNone
    /\ submitted = <<>>
    /\ last = NoOutcome
    /\ tried = 0
    /\ failed = 0
    /\ requests = 0
    /\ sleeps = 0
    /\ model_out = <<>>
    /\ impl = "none"
    /\ body = Raises("")

\* main, up to the loop: no files ends the run with status 1
main_start ==
    /\ pc = "start"
    /\ pc' = IF files = <<>> THEN "exit1" ELSE "loop"
    /\ UNCHANGED <<retries, files, logfile, prior, idx, attempt, records, res,
                   submitted, last, tried, failed, requests, sleeps, cvars>>

\* main's loop calls run_single(p), which calls post_doc(p); a post_doc whose
\* range is empty returns None, on which run_single's res.get raises
main_loop ==
    /\ pc = "loop"
    /\ idx <= Len(files)
    /\ submitted' = Append(submitted, files[idx])
    /\ attempt' = 0
    /\ last' = NoOutcome
    /\ tried' = 0
    /\ failed' = 0
    /\ requests' = 0
    /\ sleeps' = 0
    /\ IF InRange(0, retries)
       THEN /\ pc' = "attempt"
            /\ UNCHANGED res
       ELSE /\ res' = PyNone
            /\ pc' = "crash_run_single"
    /\ UNCHANGED <<retries, files, logfile, prior, idx, records, cvars>>

\* one attempt of post_doc; on a return, run_single makes the record and main
\* appends it
post_doc_attempt(out, lat_ms, ts) ==
    /\ pc = "attempt"
    /\ LET t == post_doc_try(out, lat_ms)
           final == IF t.raised THEN failure_result(t.err) ELSE t.ret
       IN  /\ last' = out
           /\ tried' = tried + 1
           /\ failed' = failed + (IF t.raised THEN 1 ELSE 0)
           /\ requests' = requests + (IF t.sent THEN 1 ELSE 0)
           /\ IF t.raised /\ RetryAgain(attempt, retries)
              THEN /\ pc' = "sleep"
                   /\ UNCHANGED <<res, records>>
              ELSE /\ res' = final
                   /\ records' = Append(records, run_single(files[idx], final, ts))
                   /\ pc' = "print"
    /\ UNCHANGED <<retries, files, logfile, prior, idx, attempt, submitted, sleeps, cvars>>

\* time.sleep(RETRY_SLEEP), then the next turn of the for loop
post_doc_sleep ==
    /\ pc = "sleep"
    /\ sleeps' = sleeps + 1
    /\ attempt' = attempt + 1
    /\ IF InRange(attempt + 1, retries)
       THEN /\ pc' = "attempt"
            /\ UNCHANGED res
       ELSE /\ res' = PyNone
            /\ pc' = "crash_run_single"
    /\ UNCHANGED <<retries, files, logfile, prior, idx, records, submitted, last,
                   tried, failed, requests, cvars>>

\* pretty_print(rec), then the next turn of main's loop
pretty_print ==
    /\ pc = "print"
    /\ IF pretty_print_raises(records[Len(records)])
       THEN /\ pc' = "crash_pretty_print"
            /\ UNCHANGED idx
       ELSE /\ pc' = "loop"
            /\ idx' = idx + 1
    /\ UNCHANGED <<retries, files, logfile, prior, attempt, records, res,
                   submitted, last, tried, failed, requests, sleeps, cvars>>

\* after the loop: save_jsonl(records, OUT_PATH) appends the run's lines
save_jsonl ==
    /\ pc = "loop"
    /\ idx > Len(files)
    /\ logfile' = logfile \o jsonl_lines(records)
    /\ pc' = "done"
    /\ UNCHANGED <<retries, files, prior, idx, attempt, records, res, submitted,
                   last, tried, failed, requests, sleeps, cvars>>

Next ==
    \/ main_start
    \/ main_loop
    \/ \E out \in Outcomes, lat_ms \in Latencies, ts \in Times :
          post_doc_attempt(out, lat_ms, ts)
    \/ post_doc_sleep
    \/ pretty_print
    \/ save_jsonl

Spec == Init /\ [][Next]_vars

\* the run is one sequential process: a step that can be taken is taken (every
\* request has a timeout, every sleep a fixed length)
FairSpec == Spec /\ WF_vars(Next)

(***************************************************************************)
(* Calls of the two coerce_json on the bounded inputs                      *)
(***************************************************************************)
CoerceInit ==
    /\ retries = 0
    /\ files = <<>>
    /\ prior = <<>>
    /\ logfile = <<>>
    /\ pc = "off"
    /\ idx = 1
    /\ attempt = 0
    /\ records = <<>>
    /\ res = PyNone
    /\ submitted = <<>>
    /\ last = NoOutcome
    /\ tried = 0
    /\ failed = 0
    /\ requests = 0
    /\ sleeps = 0
    /\ model_out \in Inputs
    /\ impl = "none"
    /\ body = Raises("")

\* body = coerce_json(gen) in app.py
call_app ==
    /\ impl = "none"
    /\ impl' = "app"
    /\ body' = coerce_json_app(model_out)
    /\ UNCHANGED <<hvars, model_out>>

\* coerce_json(model_out) of postprocess.py
call_postprocess ==
    /\ impl = "none"
    /\ impl' = "postprocess"
    /\ body' = coerce_json_postprocess(model_out)
    /\ UNCHANGED <<hvars, model_out>>

CoerceNext == call_app \/ call_postprocess

CoerceSpec == CoerceInit /\ [][CoerceNext]_vars

\* the run is over
Ended == pc \in {"done", "exit1", "crash_run_single", "crash_pretty_print"}

(***************************************************************************)
(* Claims about the harness                                                *)
(***************************************************************************)
\* post_doc has returned to run_single, and nothing has been called since
Returned == pc \in {"print", "crash_run_single"}

\* the body has both top-level fields
HasBoth(data) == data.ty = "dict" /\ {"flags", "summary"} \subseteq DOMAIN data.d

\* the result carries the body: its fields when it has both, itself otherwise
CarriesBody(r, data) ==
    IF HasBoth(data)
    THEN /\ r.d.flags = data.d.flags
         /\ r.d.summary = data.d.summary
         /\ r.d.meta = DictGet(data.d, "meta", PyDict(EmptyDict))
         /\ r.d.raw = PyNone
    ELSE /\ r.d.raw = data
         /\ r.d.flags = PyList(<<>>)
         /\ r.d.summary = PyStr("")
         /\ r.d.meta = PyDict(EmptyDict)

\* C1 (as claimed, for a retry count >= 0): a run over K >= 1 documents ends
\* with exactly K lines appended to the log, one per document in input order,
\* after the previous content left unchanged
C1_AppendsKLines ==
    (retries >= 0 /\ Ended /\ Len(files) >= 1) =>
        /\ Len(logfile) = Len(prior) + Len(files)
        /\ SubSeq(logfile, 1, Len(prior)) = prior
        /\ \A x \in 1..Len(files) :
              logfile[Len(prior) + x].m.file = json_dumps(PyStr(files[x]))

\* C2 (as claimed): whatever the retry count and the outcomes, post_doc
\* returns a mapping with an ok field, and run_single never raises on it
C2_PostDocReturnsResult ==
    Returned => (res.ty = "dict" /\ "ok" \in DOMAIN res.d /\ pc # "crash_run_single")

C8_EveryBodyOk ==
    (pc = "print" /\ last.k = "body") =>
        /\ res.d.ok = PyBool(TRUE)
        /\ CarriesBody(res, last.data)

\* C9 (as claimed, for a retry count >= 0): in a run over a sequence of paths
\* every path is submitted exactly once, in input order
C9_EveryPathSubmitted ==
    retries >= 0 =>
        /\ Len(submitted) <= Len(files)
        /\ submitted = SubSeq(files, 1, Len(submitted))
        /\ (Ended /\ files # <<>>) => submitted = files

\* C10: with RETRIES >= 0 a post_doc call sends at most RETRIES+1 requests,
\* makes a further attempt only when every attempt so far has raised, has
\* slept once per failed attempt that another attempt follows, sleeps neither
\* after a success nor after the last failure, and always returns
C10_Counts ==
    (retries >= 0 /\ pc \in {"attempt", "sleep", "print"}) =>
        /\ requests <= tried
        /\ tried <= retries + 1
        /\ requests <= retries + 1
        /\ pc \in {"attempt", "sleep"} => failed = tried
        /\ pc = "attempt" => sleeps = tried
        /\ pc = "sleep" => (sleeps = tried - 1 /\ tried <= retries)
        /\ pc = "print" => sleeps = tried - 1
C10_BoundedRetries ==
    /\ []C10_Counts
    /\ (retries >= 0 /\ pc = "attempt") ~> (pc = "print")

\* C10 witness: RETRIES = 2, three requests sent, all failed, two sleeps
C10_Witness ==
    /\ pc = "print"
    /\ retries = 2
    /\ requests = 3
    /\ failed = 3
    /\ sleeps = 2

(***************************************************************************)
(* Claims about coerce_json                                                *)
(***************************************************************************)
\* a call has returned or raised
Called == impl \in {"app", "postprocess"}

\* the whole input decoded, and the values of its two keys
Whole == json_loads(model_out)
HasKey(v, key) == \E x \in DOMAIN v.items : v.items[x].key = key
WholeObjectWithBothKeys ==
    /\ Whole.ok
    /\ Whole.v.ty = "dict"
    /\ HasKey(Whole.v, W_flags)
    /\ HasKey(Whole.v, W_summary)
FlagsValue == ObjGet(Whole.v.items, W_flags, PyNone)
SummaryValue == ObjGet(Whole.v.items, W_summary, PyNone)

\* the tokens from the first "{" to the last "}"
OpenAt == {x \in DOMAIN model_out : model_out[x] = Punct("{")}
CloseAt == {x \in DOMAIN model_out : model_out[x] = Punct("}")}
FirstOpen == CHOOSE x \in OpenAt : \A y \in OpenAt : x <= y
LastClose == CHOOSE x \in CloseAt : \A y \in CloseAt : y <= x
HasSpan == OpenAt # {} /\ CloseAt # {} /\ FirstOpen < LastClose
OuterSpan == SubSeq(model_out, FirstOpen, LastClose)

\* the try block and the fallback of the implementation that was called
TryBlock(toks) ==
    IF impl = "app" THEN structured_app(json_loads(toks))
    ELSE structured_postprocess(json_loads(toks))
Fallback(text) ==
    IF impl = "app" THEN heuristic_app(text) ELSE heuristic_postprocess(text)

IsStr(s) == DOMAIN s = 1..Len(s) /\ \A x \in DOMAIN s : s[x] \in STRING

\* the caps on what a call returned
WithinCaps ==
    /\ body.tier \in {1, 2} => Len(body.flags) <= FlagCap
    /\ body.tier = 3 => Len(body.flags) <= HeuristicFlagCap
    /\ Len(body.summary) <= SummaryCap

\* C4 (as claimed, on the inputs shorter than BlobLen characters): every
\* coerce_json returns at most FlagCap flags from the direct and embedded
\* tiers, at most HeuristicFlagCap from the heuristic tier, and a summary of
\* at most SummaryCap characters
C4_CapsEverywhere ==
    (Called /\ ~body.raised /\ Len(Text(model_out)) < BlobLen) => WithinCaps

\* the coerce_json of app.py keeps the caps on every input
AppWithinCaps == (impl = "app" /\ ~body.raised) => WithinCaps

\* C5: for every input, either coerce_json returns without raising, with a
\* flags sequence of strings and a summary string
C5_Total ==
    Called =>
        /\ ~body.raised
        /\ body.tier \in {1, 2, 3}
        /\ DOMAIN body.flags = 1..Len(body.flags)
        /\ \A x \in DOMAIN body.flags : IsStr(body.flags[x])
        /\ IsStr(body.summary)

\* C5 witness: a JSON object whose flags is a number went through a call
C5_Witness ==
    /\ Called
    /\ Whole.ok
    /\ Whole.v.ty = "dict"
    /\ FlagsValue.ty = "int"
    /\ ~body.raised
    /\ IsStr(body.summary)

\* what the direct tier is claimed to return for an object with both keys
DirectVerbatim ==
    /\ body.tier = 1
    /\ Len(body.flags) =
          (IF Len(Iterate(FlagsValue)) < FlagCap
           THEN Len(Iterate(FlagsValue)) ELSE FlagCap)
    /\ \A x \in DOMAIN body.flags : body.flags[x] = py_str(Iterate(FlagsValue)[x])
    /\ body.summary = Slice(py_str(SummaryValue), SummaryCap)

\* C6 (as claimed): for every input that is as a whole a JSON object with
\* flags and summary keys, app.coerce_json returns from the direct tier the
\* stringified flags cut to FlagCap and the stringified summary cut to
\* SummaryCap
C6_DirectForEveryObject ==
    (impl = "app" /\ WholeObjectWithBothKeys) => DirectVerbatim

\* C6 (amended): the same, for the objects whose flags value can be iterated
\* (an array, a string or an object)
C6_DirectForIterableFlags ==
    (impl = "app" /\ WholeObjectWithBothKeys /\ Iterable(FlagsValue))
        => DirectVerbatim

\* C6 witness: an object with more than FlagCap flags and a summary longer
\* than SummaryCap went through app.coerce_json
C6_Witness ==
    /\ impl = "app"
    /\ WholeObjectWithBothKeys
    /\ FlagsValue.ty = "list"
    /\ Len(FlagsValue.e) > FlagCap
    /\ SummaryValue.ty = "str"
    /\ Len(SummaryValue.s) > SummaryCap
    /\ Len(body.flags) = FlagCap
    /\ Len(body.summary) = SummaryCap

\* C7: the result is that of the direct parse of the whole input if its try
\* block did not raise; otherwise that of the span from the first "{" to the
\* last "}" if there is one and its try block did not raise; otherwise that of
\* the heuristic on the text of the whole input; flags and summary both come
\* from that tier
C7_TierPrecedence ==
    Called =>
        LET direct == TryBlock(model_out)
            span == TryBlock(OuterSpan)
            from == IF ~direct.raised THEN 1
                    ELSE IF HasSpan /\ ~span.raised THEN 2
                    ELSE 3
            tier == IF from = 1 THEN direct
                    ELSE IF from = 2 THEN span
                    ELSE Fallback(Text(model_out))
        IN  /\ body.tier = from
            /\ body.flags = tier.flags
            /\ body.summary = tier.summary

\* C7 witness: an input with two "{" whose outer span does not parse got the
\* heuristic's result for the whole text
C7_Witness ==
    /\ impl = "app"
    /\ Cardinality(OpenAt) >= 2
    /\ HasSpan
    /\ body.tier = 3
    /\ body.summary = Slice(JoinSpace(Slice(StrippedLines(SplitLines(Text(model_out))), SummaryLines)), SummaryCap)
    /\ body.summary # Slice(JoinSpace(Slice(StrippedLines(SplitLines(Text(OuterSpan))), SummaryLines)), SummaryCap)

====
